---- MODULE Spec2Model ----
(***************************************************************************)
(* Student-Intro-Evaluator: the scoring engine (scorer.py) and the Flask   *)
(* endpoint in front of it (app.py).                                       *)
(*                                                                         *)
(* Python strings are TLA+ strings; TLC evaluates Len, SubSeq, Head, Tail  *)
(* and \o on them.  A Python float that the code computes as a quotient is *)
(* kept exact: a comparison "q >= 0.9" of q = a / b is the integer         *)
(* comparison 10 * a >= 9 * b, and a rounded field (round(q, n)) is the    *)
(* integer Round(a * 10^n, b), in units of 10^-n.                          *)
(***************************************************************************)
EXTENDS Integers, Sequences, FiniteSets, TLC

VARIABLES
    FILLER_WORDS,        \* scorer.py module global, read by evaluate_clarity
    sentiment_analyzer,  \* scorer.py module global, read by evaluate_engagement
    pc,                  \* "idle", or "done" once a call or request has returned
    request,             \* what was called or posted last
    result,              \* what the call returned or raised / the HTTP response
    calls,               \* the scorers invoked while serving it, in order
    memo                 \* history: one earlier call's input and report

vars == <<FILLER_WORDS, sentiment_analyzer, pc, request, result, calls, memo>>

(***************************************************************************)
(* A local variable of the code that is read more than once is bound with  *)
(* Let, which evaluates it once and hands the value to the rest.           *)
(***************************************************************************)
Let(value, Rest(_)) == CHOOSE r \in {Rest(v) : v \in {value}} : TRUE

(***************************************************************************)
(* Lexical utilities: the str methods the scorers use.                     *)
(***************************************************************************)
UPPERCASE == "ABCDEFGHIJKLMNOPQRSTUVWXYZ"
LOWERCASE == "abcdefghijklmnopqrstuvwxyz"

\* str.isspace for the characters the model's inputs contain
WHITESPACE == {" ", "\t", "\n"}

Min(a, b) == IF a <= b THEN a ELSE b
Max(a, b) == IF a >= b THEN a ELSE b

\* round(a / b, n) for a >= 0, b > 0, in units of the last digit kept:
\* to nearest, a tie to the even neighbour.  Python rounds the float it
\* computed; where the quotient is a tie that the float misses by an ulp
\* (25 words in 48 s: 31.250000000000004) it returns the other neighbour.
Round(a, b) ==
    IF 2 * (a % b) < b THEN a \div b
    ELSE IF 2 * (a % b) > b THEN (a \div b) + 1
    ELSE IF (a \div b) % 2 = 0 THEN a \div b ELSE (a \div b) + 1

\* round(num / den, n) in units of 10^-n with scale = 10^n; num of any
\* sign, den # 0
RoundRatio(num, den, scale) ==
    IF (num >= 0) = (den > 0)
    THEN Round((IF num >= 0 THEN num ELSE -num) * scale, IF den > 0 THEN den ELSE -den)
    ELSE -Round((IF num >= 0 THEN num ELSE -num) * scale, IF den > 0 THEN den ELSE -den)

\* lo <= num / den, and num / den <= hi, for den # 0
AtLeast(num, den, lo) == IF den > 0 THEN lo * den <= num ELSE lo * den >= num
AtMost(num, den, hi)  == IF den > 0 THEN num <= hi * den ELSE num >= hi * den

\* one character of str.lower()
lower_char(c) ==
    IF \E i \in 1..Len(UPPERCASE) : SubSeq(UPPERCASE, i, i) = c
    THEN SubSeq(LOWERCASE, CHOOSE k \in 1..Len(UPPERCASE) : SubSeq(UPPERCASE, k, k) = c,
                           CHOOSE k \in 1..Len(UPPERCASE) : SubSeq(UPPERCASE, k, k) = c)
    ELSE c

RECURSIVE lower(_)
\* str.lower().  A string is worked on by halves, which keeps the depth of
\* the evaluation logarithmic in its length.
lower(s) ==
    IF Len(s) <= 1 THEN lower_char(s)
    ELSE lower(SubSeq(s, 1, Len(s) \div 2)) \o lower(SubSeq(s, Len(s) \div 2 + 1, Len(s)))

\* Python's "sub in text"
Contains(text, sub) ==
    \E i \in 0..(Len(text) - Len(sub)) : SubSeq(text, i + 1, i + Len(sub)) = sub

\* any(p in text for p in phrases), phrases a sequence
ContainsAny(text, phrases) ==
    \E k \in 1..Len(phrases) : Contains(text, phrases[k])

\* the positions 1..n of a string, in order
Indices(n) == [k \in 1..n |-> k]

RECURSIVE greedy(_, _, _, _)
\* how many of starts[k..], taken left to right, begin at or after free,
\* each one taken moving free past its end
greedy(starts, width, k, free) ==
    IF k > Len(starts) THEN 0
    ELSE IF starts[k] >= free THEN 1 + greedy(starts, width, k + 1, starts[k] + width)
    ELSE greedy(starts, width, k + 1, free)

\* str.count(sub): the occurrences of sub that do not overlap, found left
\* to right
count(text, sub) ==
    Let(SelectSeq(Indices(Len(text) - Len(sub) + 1),
                  LAMBDA i : SubSeq(text, i, i + Len(sub) - 1) = sub),
        LAMBDA starts : greedy(starts, Len(sub), 1, 1))

\* s from the first to the last of its characters that are not in chars
strip_chars(s, chars) ==
    Let(SelectSeq(Indices(Len(s)), LAMBDA i : SubSeq(s, i, i) \notin chars),
        LAMBDA kept : IF kept = <<>> THEN "" ELSE SubSeq(s, kept[1], kept[Len(kept)]))

\* str.strip()
strip(s) == strip_chars(s, WHITESPACE)

\* s cut at every character of seps, empty pieces kept: str.split(sep) for
\* a one-character sep
pieces(s, seps) ==
    Let(SelectSeq(Indices(Len(s)), LAMBDA i : SubSeq(s, i, i) \in seps),
        LAMBDA cuts :
            [k \in 1..(Len(cuts) + 1) |->
                SubSeq(s, IF k = 1 THEN 1 ELSE cuts[k - 1] + 1,
                          IF k > Len(cuts) THEN Len(s) ELSE cuts[k] - 1)])

NonEmpty(piece) == piece # ""

\* str.split(): runs of whitespace separate, no empty pieces
split(s) == SelectSeq(pieces(s, WHITESPACE), NonEmpty)

Range(seq) == {seq[i] : i \in 1..Len(seq)}

RECURSIVE SumSeq(_, _, _)
\* sum(seq[lo..hi]), by halves
SumSeq(seq, lo, hi) ==
    IF lo > hi THEN 0
    ELSE IF lo = hi THEN seq[lo]
    ELSE SumSeq(seq, lo, (lo + hi) \div 2) + SumSeq(seq, (lo + hi) \div 2 + 1, hi)

(***************************************************************************)
(* Module state of scorer.py.                                              *)
(***************************************************************************)
\* FILLER_WORDS as the module sets it
INITIAL_FILLER_WORDS ==
    <<"um", "uh", "like", "you know", "so", "actually", "basically",
      "right", "i mean", "well", "kinda", "sort of", "okay", "hmm", "ah">>

\* The sentiment analyzer is vaderSentiment's, not this repository's.  Its
\* state is its lexicon, word -> valence (in tenths); this is a stand-in
\* excerpt.
VADER_LEXICON ==
    [w \in {"great", "good", "love", "enjoy", "like", "thank", "excited", "kind"} |->
        CASE w = "great" -> 31 [] w = "good" -> 19 [] w = "love" -> 32
          [] w = "enjoy" -> 22 [] w = "like" -> 15 [] w = "thank" -> 15
          [] w = "excited" -> 14 [] w = "kind" -> 24]

PUNCTUATION == {".", ",", "!", "?"}

\* the valence of a token: that of its word in the lexicon, 0 for a word
\* not in it
valence(lexicon, token) ==
    Let(lower(strip_chars(token, PUNCTUATION)),
        LAMBDA w : IF w \in DOMAIN lexicon THEN lexicon[w] ELSE 0)

\* the shares of positive, negative and neutral weight among the valences,
\* in thousandths: a word of valence v weighs |v| + 1 (v in tenths) on its
\* side, a neutral word 1
shares(valences) ==
    Let(<<SumSeq([i \in 1..Len(valences) |->
                     IF valences[i] > 0 THEN valences[i] + 10 ELSE 0], 1, Len(valences)),
          SumSeq([i \in 1..Len(valences) |->
                     IF valences[i] < 0 THEN 10 - valences[i] ELSE 0], 1, Len(valences)),
          SumSeq([i \in 1..Len(valences) |->
                     IF valences[i] = 0 THEN 10 ELSE 0], 1, Len(valences))>>,
        LAMBDA w :
            IF w[1] + w[2] + w[3] = 0 THEN [pos |-> 0, neg |-> 0, neu |-> 0]
            ELSE [pos |-> Round(1000 * w[1], w[1] + w[2] + w[3]),
                  neg |-> Round(1000 * w[2], w[1] + w[2] + w[3]),
                  neu |-> Round(1000 * w[3], w[1] + w[2] + w[3])])

\* SentimentIntensityAnalyzer.polarity_scores: the shares of positive,
\* negative and neutral weight of the text's words, each rounded to 3
\* decimals.  The compound score is left out.
polarity_scores(analyzer, text) ==
    Let(split(text),
        LAMBDA tokens :
            Let([i \in 1..Len(tokens) |-> valence(analyzer, tokens[i])], shares))

(***************************************************************************)
(* The scorers.  A result is the dict the code returns, as a record.  A    *)
(* feedback f-string keeps its text and drops the number formatted into it.*)
(* Each scorer binds the locals of the code and hands them to the operator *)
(* that holds the rest of its body.                                        *)
(***************************************************************************)
good_greetings ==
    <<"good morning", "good afternoon", "good evening", "good day", "hello everyone">>

\* salutation_rules with the Normal rule tried first: a transcript that
\* also matches a higher rule scores 2
salutation_rules_plain_first(text_lower) ==
    IF Contains(text_lower, "hi") \/ Contains(text_lower, "hello")
    THEN [score |-> 2, level |-> "Normal", feedback |-> "Basic greeting found"]
    ELSE IF Contains(text_lower, "excited to introduce") \/ Contains(text_lower, "feeling great")
    THEN [score |-> 5, level |-> "Excellent", feedback |-> "Excellent greeting with enthusiasm"]
    ELSE IF ContainsAny(text_lower, good_greetings)
    THEN [score |-> 4, level |-> "Good", feedback |-> "Good formal greeting"]
    ELSE [score |-> 0, level |-> "None", feedback |-> "No greeting detected"]

salutation_rules(text_lower) ==
    IF Contains(text_lower, "excited to introduce") \/ Contains(text_lower, "feeling great")
    THEN [score |-> 5, level |-> "Excellent", feedback |-> "Excellent greeting with enthusiasm"]
    ELSE IF ContainsAny(text_lower, good_greetings)
    THEN [score |-> 4, level |-> "Good", feedback |-> "Good formal greeting"]
    ELSE IF Contains(text_lower, "hi") \/ Contains(text_lower, "hello")
    THEN [score |-> 2, level |-> "Normal", feedback |-> "Basic greeting found"]
    ELSE [score |-> 0, level |-> "None", feedback |-> "No greeting detected"]

evaluate_salutation(transcript) == Let(lower(transcript), salutation_rules)

\* a dict in insertion order: a sequence of <<category, keywords>>
must_have ==
    << <<"name",         <<"name", "myself", "i am", "i'm">> >>,
       <<"age",          <<"years old", "age", "year old">> >>,
       <<"school/class", <<"class", "school", "studying", "student">> >>,
       <<"family",       <<"family", "father", "mother", "parents", "brother", "sister">> >>,
       <<"hobbies",      <<"hobby", "hobbies", "enjoy", "like", "love", "play", "playing">> >> >>

good_to_have ==
    << <<"about family",  <<"kind", "loving", "caring", "supportive">> >>,
       <<"origin",        <<"from", "live in", "come from">> >>,
       <<"ambition/goal", <<"ambition", "goal", "dream", "want to", "aspire">> >>,
       <<"fun fact",      <<"fun fact", "interesting", "unique", "special">> >>,
       <<"strengths",     <<"good at", "strength", "achievement", "proud">> >> >>

\* categories_where with the else branch of the loop taken on every pass:
\* a category that is found is listed as missing too
categories_where_always_missing(table, text_lower, hit) ==
    Let(SelectSeq(table, LAMBDA row : ~hit \/ ContainsAny(text_lower, row[2])),
        LAMBDA rows : [i \in 1..Len(rows) |-> rows[i][1]])

\* the categories of table, in order, whose keywords do (hit) or do not
\* (~hit) occur in text_lower
categories_where(table, text_lower, hit) ==
    Let(SelectSeq(table, LAMBDA row : ContainsAny(text_lower, row[2]) = hit),
        LAMBDA rows : [i \in 1..Len(rows) |-> rows[i][1]])

\* keyword_result with 5 points for a required category
keyword_result_five_each(must_found, missing_keywords, good_found) ==
    [score    |-> 5 * Len(must_found) + Min(Len(good_found) * 2, 10),
     found    |-> must_found \o good_found,
     missing  |-> missing_keywords,
     feedback |-> "Found keywords. Missing"]

\* the loops done: the required categories found and missing, the
\* optional ones found
keyword_result(must_found, missing_keywords, good_found) ==
    [score    |-> 4 * Len(must_found) + Min(Len(good_found) * 2, 10),
     found    |-> must_found \o good_found,
     missing  |-> missing_keywords,
     feedback |-> "Found keywords. Missing"]

evaluate_keyword_presence(transcript) ==
    Let(lower(transcript),
        LAMBDA text_lower :
            keyword_result(categories_where(must_have, text_lower, TRUE),
                           categories_where(must_have, text_lower, FALSE),
                           categories_where(good_to_have, text_lower, TRUE)))

\* [s.strip() for s in parts if s.strip()]
stripped_nonempty(parts) ==
    SelectSeq([i \in 1..Len(parts) |-> strip(parts[i])], NonEmpty)

\* flow_rules with a greeting list that lacks "hi"
flow_rules_without_hi(sentences) ==
    LET has_salutation_first ==
            /\ Len(sentences) >= 2
            /\ ContainsAny(lower(sentences[1]),
                   <<"hello", "good morning", "good afternoon", "good evening">>)
        has_name_early ==
            \E i \in 1..Min(3, Len(sentences)) :
                ContainsAny(lower(sentences[i]), <<"name", "myself", "i am", "i'm">>)
        has_closing ==
            /\ sentences # <<>>
            /\ ContainsAny(lower(sentences[Len(sentences)]), <<"thank", "thanks", "listening">>)
    IN  IF has_salutation_first /\ has_name_early /\ has_closing
        THEN [score |-> 5, feedback |-> "Excellent flow with proper order"]
        ELSE IF has_salutation_first /\ has_name_early
        THEN [score |-> 4, feedback |-> "Good flow, missing proper closing"]
        ELSE IF has_name_early
        THEN [score |-> 2, feedback |-> "Partial flow detected"]
        ELSE [score |-> 0, feedback |-> "Flow order not followed"]

flow_rules(sentences) ==
    LET has_salutation_first ==
            /\ Len(sentences) >= 2
            /\ ContainsAny(lower(sentences[1]),
                   <<"hello", "hi", "good morning", "good afternoon", "good evening">>)
        has_name_early ==
            \E i \in 1..Min(3, Len(sentences)) :
                ContainsAny(lower(sentences[i]), <<"name", "myself", "i am", "i'm">>)
        has_closing ==
            /\ sentences # <<>>
            /\ ContainsAny(lower(sentences[Len(sentences)]), <<"thank", "thanks", "listening">>)
    IN  IF has_salutation_first /\ has_name_early /\ has_closing
        THEN [score |-> 5, feedback |-> "Excellent flow with proper order"]
        ELSE IF has_salutation_first /\ has_name_early
        THEN [score |-> 4, feedback |-> "Good flow, missing proper closing"]
        ELSE IF has_name_early
        THEN [score |-> 2, feedback |-> "Partial flow detected"]
        ELSE [score |-> 0, feedback |-> "Flow order not followed"]

evaluate_flow(transcript) ==
    Let(stripped_nonempty(pieces(transcript, {"."})), flow_rules)

\* wpm = (word_count / duration_sec) * 60 is the ratio 60 * word_count /
\* duration_sec; wpm is returned in tenths.  Dividing by 0 raises.
speech_rate_bands(word_count, duration_sec) ==
    IF duration_sec = 0 THEN [raised |-> "division by zero"]
    ELSE IF /\ AtLeast(60 * word_count, duration_sec, 111)
            /\ AtMost(60 * word_count, duration_sec, 140)
    THEN [score |-> 10, wpm |-> RoundRatio(60 * word_count, duration_sec, 10),
          feedback |-> "Ideal speech rate"]
    ELSE IF \/ /\ AtLeast(60 * word_count, duration_sec, 141)
               /\ AtMost(60 * word_count, duration_sec, 160)
            \/ /\ AtLeast(60 * word_count, duration_sec, 81)
               /\ AtMost(60 * word_count, duration_sec, 110)
    THEN [score |-> 6, wpm |-> RoundRatio(60 * word_count, duration_sec, 10),
          feedback |-> "Acceptable speech rate"]
    ELSE IF ~AtMost(60 * word_count, duration_sec, 160)
    THEN [score |-> 2, wpm |-> RoundRatio(60 * word_count, duration_sec, 10),
          feedback |-> "Too fast"]
    ELSE [score |-> 2, wpm |-> RoundRatio(60 * word_count, duration_sec, 10),
          feedback |-> "Too slow"]

evaluate_speech_rate(transcript, duration_sec) ==
    Let(Len(split(transcript)), LAMBDA word_count : speech_rate_bands(word_count, duration_sec))

\* errors_per_100 = e_num / e_den, returned in hundredths.
\* grammar_score = max(0, 1 - min(errors_per_100 / 10, 1)) is the ratio
\* g_num / g_den with g_den = 10 * e_den
grammar_bands(matches, word_count) ==
    LET e_num == IF word_count > 0 THEN Len(matches) * 100 ELSE 0
        e_den == IF word_count > 0 THEN word_count ELSE 1
        g_num == Max(0, 10 * e_den - Min(e_num, 10 * e_den))
        g_den == 10 * e_den
    IN  [score          |-> IF 10 * g_num >= 9 * g_den THEN 10
                            ELSE IF 10 * g_num >= 7 * g_den THEN 8
                            ELSE IF 10 * g_num >= 5 * g_den THEN 6
                            ELSE IF 10 * g_num >= 3 * g_den THEN 4
                            ELSE 2,
         errors         |-> Len(matches),
         errors_per_100 |-> RoundRatio(e_num, e_den, 100),
         feedback       |-> "grammar errors found"]

\* matches = []: nothing checks the grammar.  (The file indents that line
\* by 6 columns, which Python rejects as an unexpected indent; it is read
\* here at the 4 columns of the body it belongs to.)
evaluate_grammar(transcript) ==
    Let(Len(split(transcript)), LAMBDA word_count : grammar_bands(<<>>, word_count))

\* vocabulary_bands without the early return for no words, the ratio
\* taken as 0 there
vocabulary_bands_no_early_return(unique, total_words) ==
    [score        |-> IF total_words > 0 /\ 10 * unique >= 9 * total_words THEN 10
                      ELSE IF total_words > 0 /\ 10 * unique >= 7 * total_words THEN 8
                      ELSE IF total_words > 0 /\ 10 * unique >= 5 * total_words THEN 6
                      ELSE IF total_words > 0 /\ 10 * unique >= 3 * total_words THEN 4
                      ELSE 2,
     ttr          |-> IF total_words > 0 THEN RoundRatio(unique, total_words, 1000) ELSE 0,
     unique_words |-> unique,
     total_words  |-> total_words,
     feedback     |-> "TTR"]

\* ttr = unique / total_words, returned in thousandths
vocabulary_bands(unique, total_words) ==
    IF total_words = 0
    THEN [score |-> 0, ttr |-> 0, feedback |-> "No words found"]
    ELSE [score        |-> IF 10 * unique >= 9 * total_words THEN 10
                           ELSE IF 10 * unique >= 7 * total_words THEN 8
                           ELSE IF 10 * unique >= 5 * total_words THEN 6
                           ELSE IF 10 * unique >= 3 * total_words THEN 4
                           ELSE 2,
          ttr          |-> RoundRatio(unique, total_words, 1000),
          unique_words |-> unique,
          total_words  |-> total_words,
          feedback     |-> "TTR"]

evaluate_vocabulary(transcript) ==
    Let(split(lower(transcript)),
        LAMBDA words :
            Let(Cardinality(Range(words)),
                LAMBDA unique : vocabulary_bands(unique, Len(words))))

\* filler_rate = (filler_count / word_count) * 100 is r_num / r_den,
\* returned in hundredths
clarity_bands(filler_count, word_count) ==
    LET r_num == IF word_count > 0 THEN filler_count * 100 ELSE 0
        r_den == IF word_count > 0 THEN word_count ELSE 1
    IN  [score        |-> IF r_num <= 3 * r_den THEN 15
                          ELSE IF r_num <= 6 * r_den THEN 12
                          ELSE IF r_num <= 9 * r_den THEN 9
                          ELSE IF r_num <= 12 * r_den THEN 6
                          ELSE 3,
         filler_count |-> filler_count,
         filler_rate  |-> RoundRatio(r_num, r_den, 100),
         feedback     |-> "filler words found"]

\* sum(text_lower.count(filler) for filler in fillers)
filler_total(text_lower, fillers) ==
    SumSeq([k \in 1..Len(fillers) |-> count(text_lower, fillers[k])], 1, Len(fillers))

evaluate_clarity(transcript, fillers) ==
    Let(lower(transcript),
        LAMBDA text_lower :
            Let(<<filler_total(text_lower, fillers), Len(split(transcript))>>,
                LAMBDA n : clarity_bands(n[1], n[2])))

\* scores['pos'] is in thousandths
engagement_bands(scores) ==
    [score          |-> IF scores.pos >= 900 THEN 15
                        ELSE IF scores.pos >= 700 THEN 12
                        ELSE IF scores.pos >= 500 THEN 9
                        ELSE IF scores.pos >= 300 THEN 6
                        ELSE 3,
     positive_score |-> scores.pos,
     sentiment      |-> scores,
     feedback       |-> "Positive sentiment"]

evaluate_engagement(transcript, analyzer) ==
    Let(polarity_scores(analyzer, transcript), engagement_bands)

NoValue == [none |-> TRUE]

\* What a call did: the scorers it invoked, the exception that left it
\* ("" when it returned) and the value it returned.
Returned(called, value) == [raised |-> "", calls |-> called, value |-> value]
Raised(called, message) == [raised |-> message, calls |-> called, value |-> NoValue]

\* filler_words_after for a scorer that pops the fillers it has counted
filler_words_after_pop(fillers) == IF fillers = <<>> THEN fillers ELSE Tail(fillers)

\* the module state a call of evaluate_introduction leaves behind:
\* evaluate_clarity only iterates FILLER_WORDS
filler_words_after(fillers) == fillers

\* evaluate_introduction from the point where the sub-results are known;
\* an exception of evaluate_speech_rate leaves before the later scorers run
compile_results(transcript, duration_sec, salutation, keywords, flow, speech, grammar, vocabulary, clarity, engagement) ==
    IF "raised" \in DOMAIN speech
    THEN Raised(<<"evaluate_salutation", "evaluate_keyword_presence", "evaluate_flow",
                  "evaluate_speech_rate">>, speech.raised)
    ELSE LET content_score  == salutation.score + keywords.score + flow.score
             language_score == grammar.score + vocabulary.score
             total_score    == content_score + speech.score + language_score
                               + clarity.score + engagement.score
         IN  Returned(
            <<"evaluate_salutation", "evaluate_keyword_presence", "evaluate_flow",
              "evaluate_speech_rate", "evaluate_grammar", "evaluate_vocabulary",
              "evaluate_clarity", "evaluate_engagement">>,
            [overall_score |-> total_score,
             max_score     |-> 100,
             percentage    |-> total_score,
             categories    |->
                [content_structure |-> [score |-> content_score, max |-> 40,
                                        salutation |-> salutation,
                                        keywords |-> keywords, flow |-> flow],
                 speech_rate       |-> [score |-> speech.score, max |-> 10, details |-> speech],
                 language_grammar  |-> [score |-> language_score, max |-> 20,
                                        grammar |-> grammar, vocabulary |-> vocabulary],
                 clarity           |-> [score |-> clarity.score, max |-> 15, details |-> clarity],
                 engagement        |-> [score |-> engagement.score, max |-> 15,
                                        details |-> engagement]],
             word_count    |-> Len(split(transcript)),
             duration_sec  |-> duration_sec])

evaluate_introduction(transcript, duration_sec, fillers, analyzer) ==
    Let(<<evaluate_salutation(transcript), evaluate_keyword_presence(transcript),
          evaluate_flow(transcript), evaluate_speech_rate(transcript, duration_sec),
          evaluate_grammar(transcript), evaluate_vocabulary(transcript),
          evaluate_clarity(transcript, fillers), evaluate_engagement(transcript, analyzer)>>,
        LAMBDA r : compile_results(transcript, duration_sec,
                                   r[1], r[2], r[3], r[4], r[5], r[6], r[7], r[8]))

(***************************************************************************)
(* app.py: the JSON body of a request and the /evaluate handler.           *)
(***************************************************************************)
\* a JSON value of the body: a field that is absent, null, an integer
\* (num) or a string (str)
Absent    == [kind |-> "absent", num |-> 0, str |-> ""]
Null      == [kind |-> "null",   num |-> 0, str |-> ""]
Number(n) == [kind |-> "number", num |-> n, str |-> ""]
String(s) == [kind |-> "string", num |-> 0, str |-> s]

DIGITS == "0123456789"

RECURSIVE parse_digits(_, _)
\* the value of a run of decimal digits after acc, -1 when s holds
\* anything else
parse_digits(s, acc) ==
    IF s = "" THEN acc
    ELSE IF \E i \in 1..10 : SubSeq(DIGITS, i, i) = Head(s)
         THEN parse_digits(Tail(s),
                  10 * acc + (CHOOSE i \in 1..10 : SubSeq(DIGITS, i, i) = Head(s)) - 1)
         ELSE -1

\* the duration the handler passes when the body names none
DEFAULT_DURATION == 52

\* int() of a string: stripped, an optional sign, then digits only (the
\* inputs hold no underscores, which int() would skip)
int_of_string(s, original) ==
    LET signed == s # "" /\ Head(s) \in {"+", "-"}
        digits == IF signed THEN Tail(s) ELSE s
        n      == IF digits = "" THEN -1 ELSE parse_digits(digits, 0)
    IN  IF n < 0
        THEN [ok |-> FALSE, value |-> 0,
              error |-> "invalid literal for int() with base 10: '" \o original \o "'"]
        ELSE [ok |-> TRUE, value |-> IF signed /\ Head(s) = "-" THEN -n ELSE n, error |-> ""]

\* int(data.get('duration', 52)): [ok, value, error]
int_duration(field) ==
    CASE field.kind = "absent" -> [ok |-> TRUE, value |-> DEFAULT_DURATION, error |-> ""]
      [] field.kind = "number" -> [ok |-> TRUE, value |-> field.num, error |-> ""]
      [] field.kind = "null"   ->
            [ok |-> FALSE, value |-> 0,
             error |-> "int() argument must be a string, a bytes-like object or a real number, not 'NoneType'"]
      [] field.kind = "string" ->
            Let(strip(field.str), LAMBDA s : int_of_string(s, field.str))

Response(status, error, results, called) ==
    [status |-> status, error |-> error, results |-> results, calls |-> called]

\* evaluate_checked with "if not transcript:" for "if not transcript.strip():"
evaluate_checked_unstripped(transcript, duration, fillers, analyzer) ==
    IF ~duration.ok
    THEN Response(500, duration.error, NoValue, <<>>)
    ELSE IF transcript.kind = "null"
    THEN Response(500, "'NoneType' object has no attribute 'strip'", NoValue, <<>>)
    ELSE IF transcript.kind = "number"
    THEN Response(500, "'int' object has no attribute 'strip'", NoValue, <<>>)
    ELSE IF transcript.str = ""
    THEN Response(400, "Transcript cannot be empty", NoValue, <<>>)
    ELSE Let(evaluate_introduction(transcript.str, duration.value, fillers, analyzer),
             LAMBDA run : IF run.raised # ""
                          THEN Response(500, run.raised, NoValue, run.calls)
                          ELSE Response(200, "", run.value, run.calls))

\* the handler once duration = int(...) has returned or raised
evaluate_checked(transcript, duration, fillers, analyzer) ==
    IF ~duration.ok
    THEN Response(500, duration.error, NoValue, <<>>)
    ELSE IF transcript.kind = "null"
    THEN Response(500, "'NoneType' object has no attribute 'strip'", NoValue, <<>>)
    ELSE IF transcript.kind = "number"
    THEN Response(500, "'int' object has no attribute 'strip'", NoValue, <<>>)
    ELSE IF strip(transcript.str) = ""
    THEN Response(400, "Transcript cannot be empty", NoValue, <<>>)
    ELSE Let(evaluate_introduction(transcript.str, duration.value, fillers, analyzer),
             LAMBDA run : IF run.raised # ""
                          THEN Response(500, run.raised, NoValue, run.calls)
                          ELSE Response(200, "", run.value, run.calls))

\* evaluate(): the whole handler, try block and except clause.  data is
\* the parsed body: [json |-> FALSE] when request.get_json() yields no
\* object, else [json |-> TRUE, transcript |-> field, duration |-> field].
evaluate(data, fillers, analyzer) ==
    IF ~data.json
    THEN Response(500, "'NoneType' object has no attribute 'get'", NoValue, <<>>)
    ELSE Let(int_duration(data.duration),
             LAMBDA duration :
                 evaluate_checked(IF data.transcript.kind = "absent"
                                  THEN String("") ELSE data.transcript,
                                  duration, fillers, analyzer))

(***************************************************************************)
(* Inputs.                                                                 *)
(***************************************************************************)
MaxFragments == 2
MaxPostFragments == 1
MaxWords == 100
MaxDuration == 60

Fragments ==
    <<" \n", "Hi. ", "this ", "Good Morning. ", "Feeling great this morning! ",
      "I am 12 years old, I like school and my family. ",
      "A kind, proud dreamer from a unique town. ",
      "Thank you.", "um so well ", "go go go go ">>

INTRO_JOHN ==
    "Hi, myself John. I am from Delhi. I enjoy playing football. Thank you for listening."

RECURSIVE TextsUpTo(_, _)
\* the concatenations of at most n of the fragments
TextsUpTo(fragments, n) ==
    IF n = 0 THEN {""}
    ELSE LET shorter == TextsUpTo(fragments, n - 1)
         IN  shorter \cup {t \o fragments[k] : t \in shorter, k \in 1..Len(fragments)}

Texts == TextsUpTo(Fragments, MaxFragments) \cup {INTRO_JOHN}

Durations == {0, 1, 13}

RECURSIVE Words(_)
\* a transcript of n words
Words(n) ==
    IF n = 0 THEN ""
    ELSE IF n = 1 THEN "word "
    ELSE Words(n \div 2) \o Words(n - n \div 2)

TranscriptFields ==
    {Absent, Null, Number(5)}
    \cup {String(t) : t \in TextsUpTo(Fragments, MaxPostFragments) \cup {INTRO_JOHN}}

DurationFields ==
    {Absent, Null, Number(-5), Number(0), Number(30),
     String("30"), String(" 52 "), String("-5"), String("abc"), String("")}

Bodies ==
    {[json |-> FALSE]}
    \cup {[json |-> TRUE, transcript |-> t, duration |-> d] :
            t \in TranscriptFields, d \in DurationFields}

(***************************************************************************)
(* The state machine: one call or request at a time.                       *)
(***************************************************************************)
NoMemo == [none |-> TRUE]

\* the calls counted since one was remembered
MaxLaterCalls == 2

\* history: one more call made since the remembered one
Later(m) ==
    IF "report" \in DOMAIN m
    THEN [m EXCEPT !.later = Min(@ + 1, MaxLaterCalls)]
    ELSE m

Init ==
    /\ FILLER_WORDS = INITIAL_FILLER_WORDS
    /\ sentiment_analyzer = VADER_LEXICON
    /\ pc = "idle"
    /\ request = [kind |-> "none"]
    /\ result = NoValue
    /\ calls = <<>>
    /\ memo = NoMemo

\* evaluate_introduction(transcript, duration_sec), called as a function
CallIntroduction(transcript, duration_sec) ==
    /\ pc = "idle"
    /\ \E run \in {evaluate_introduction(transcript, duration_sec,
                                            FILLER_WORDS, sentiment_analyzer)} :
           /\ result' = [raised |-> run.raised, value |-> run.value]
           /\ calls' = run.calls
    /\ request' = [kind |-> "evaluate_introduction",
                   transcript |-> transcript, duration_sec |-> duration_sec]
    /\ FILLER_WORDS' = filler_words_after(FILLER_WORDS)
    /\ pc' = "done"
    /\ memo' = Later(memo)
    /\ UNCHANGED sentiment_analyzer

\* evaluate_speech_rate(transcript, duration_sec), called as a function
CallSpeechRate(transcript, duration_sec) ==
    /\ pc = "idle"
    /\ \E speech \in {evaluate_speech_rate(transcript, duration_sec)} :
           result' = IF "raised" \in DOMAIN speech
                     THEN [raised |-> speech.raised, value |-> NoValue]
                     ELSE [raised |-> "", value |-> speech]
    /\ calls' = <<"evaluate_speech_rate">>
    /\ request' = [kind |-> "evaluate_speech_rate",
                   transcript |-> transcript, duration_sec |-> duration_sec]
    /\ pc' = "done"
    /\ UNCHANGED <<FILLER_WORDS, sentiment_analyzer, memo>>

\* POST /evaluate with the body data
PostEvaluate(data) ==
    /\ pc = "idle"
    /\ \E response \in {evaluate(data, FILLER_WORDS, sentiment_analyzer)} :
           /\ result' = [status |-> response.status, error |-> response.error,
                         results |-> response.results]
           /\ calls' = response.calls
           /\ FILLER_WORDS' = IF "evaluate_clarity" \in Range(response.calls)
                              THEN filler_words_after(FILLER_WORDS)
                              ELSE FILLER_WORDS
    /\ request' = [kind |-> "POST /evaluate", data |-> data]
    /\ pc' = "done"
    /\ UNCHANGED <<sentiment_analyzer, memo>>

\* GET /: index() renders the page and calls no scorer
GetIndex ==
    /\ pc = "idle"
    /\ result' = [status |-> 200, error |-> "", results |-> [template |-> "index.html"]]
    /\ calls' = <<>>
    /\ request' = [kind |-> "GET /"]
    /\ pc' = "done"
    /\ UNCHANGED <<FILLER_WORDS, sentiment_analyzer, memo>>

\* the caller has its answer; the next call or request may start
Return ==
    /\ pc = "done"
    /\ pc' = "idle"
    /\ request' = [kind |-> "none"]
    /\ result' = NoValue
    /\ calls' = <<>>
    /\ UNCHANGED <<FILLER_WORDS, sentiment_analyzer, memo>>

\* history: keep this call's input and report to compare later ones with
Remember ==
    /\ pc = "done"
    /\ request.kind = "evaluate_introduction"
    /\ result.raised = ""
    /\ memo' = [transcript |-> request.transcript, duration_sec |-> request.duration_sec,
                report |-> result.value, later |-> 0]
    /\ UNCHANGED <<FILLER_WORDS, sentiment_analyzer, pc, request, result, calls>>

Next ==
    \/ \E t \in Texts, d \in Durations : CallIntroduction(t, d)
    \/ \E data \in Bodies : PostEvaluate(data)
    \/ GetIndex
    \/ Return

Spec == Init /\ [][Next]_vars

\* the speech-rate scorer over every word count and duration
NextRate ==
    \/ \E n \in 0..MaxWords, d \in 1..MaxDuration : CallSpeechRate(Words(n), d)
    \/ Return

SpecRate == Init /\ [][NextRate]_vars

\* repeated calls, one earlier call remembered
MaxMemoFragments == 1

MemoFragments == <<" \n", "Hi. ", "um so well ", "I like school. Thank you.">>

MemoTexts == TextsUpTo(MemoFragments, MaxMemoFragments)

NextMemo ==
    \/ \E t \in MemoTexts, d \in {0, 30} : CallIntroduction(t, d)
    \/ Remember
    \/ Return

SpecMemo == Init /\ [][NextMemo]_vars

(***************************************************************************)
(* Properties.                                                             *)
(***************************************************************************)
Called(fn) == pc = "done" /\ request.kind = fn
Posted == pc = "done" /\ request.kind = "POST /evaluate" /\ request.data.json

\* a report is at hand: evaluate_introduction returned it, or the handler
\* answered 200 with it
HasReport ==
    \/ Called("evaluate_introduction") /\ result.raised = ""
    \/ Posted /\ result.status = 200
Report == IF request.kind = "evaluate_introduction" THEN result.value ELSE result.results
Transcript ==
    IF request.kind = "evaluate_introduction" THEN request.transcript
    ELSE request.data.transcript.str
Duration == IF request.kind = "evaluate_introduction" THEN request.duration_sec
            ELSE int_duration(request.data.duration).value

\* C1: every report for a positive duration has each sub-score within
\* [0, max] of its category (5, 30, 5, 10, 10, 10, 15, 15), content_structure
\* = salutation + keywords + flow, language_grammar = grammar + vocabulary,
\* and overall_score in [0, 100] equal to the sum of the five category totals.
C1_ScoresBoundedAndSummed ==
    Called("evaluate_introduction") /\ request.duration_sec > 0 =>
        /\ result.raised = ""
        /\ LET c == result.value.categories
           IN  /\ c.content_structure.salutation.score \in 0..5
               /\ c.content_structure.keywords.score \in 0..30
               /\ c.content_structure.flow.score \in 0..5
               /\ c.speech_rate.details.score \in 0..10
               /\ c.language_grammar.grammar.score \in 0..10
               /\ c.language_grammar.vocabulary.score \in 0..10
               /\ c.clarity.details.score \in 0..15
               /\ c.engagement.details.score \in 0..15
               /\ c.content_structure.score =
                      c.content_structure.salutation.score
                      + c.content_structure.keywords.score
                      + c.content_structure.flow.score
               /\ c.language_grammar.score =
                      c.language_grammar.grammar.score + c.language_grammar.vocabulary.score
               /\ c.speech_rate.score = c.speech_rate.details.score
               /\ c.clarity.score = c.clarity.details.score
               /\ c.engagement.score = c.engagement.details.score
               /\ result.value.overall_score \in 0..100
               /\ result.value.overall_score =
                      c.content_structure.score + c.speech_rate.score
                      + c.language_grammar.score + c.clarity.score + c.engagement.score

\* a report whose keyword score is the full 30 and whose total is high
C1_Witness ==
    /\ Called("evaluate_introduction") /\ request.duration_sec > 0
    /\ result.raised = ""
    /\ result.value.categories.content_structure.keywords.score = 30
    /\ result.value.overall_score >= 70

EmptyTranscript(data) ==
    \/ data.transcript.kind = "absent"
    \/ data.transcript.kind = "string" /\ strip(data.transcript.str) = ""

\* C2: a request whose transcript is empty or whitespace-only is answered
\* without any scorer having been invoked and without a report.
C2_EmptyNeverScored ==
    Posted /\ EmptyTranscript(request.data) =>
        /\ calls = <<>>
        /\ result.status # 200
        /\ result.results = NoValue

\* a whitespace-only transcript with a valid duration, turned away with 400
C2_Witness ==
    /\ Posted
    /\ request.data.transcript.kind = "string"
    /\ request.data.transcript.str # ""
    /\ strip(request.data.transcript.str) = ""
    /\ int_duration(request.data.duration).ok
    /\ result.status = 400
    /\ calls = <<>>

\* C3: every request whose transcript is missing, null, empty or
\* whitespace-only is answered 400 "Transcript cannot be empty", whatever
\* its duration field.
C3_BadTranscriptGets400 ==
    Posted /\ (EmptyTranscript(request.data) \/ request.data.transcript.kind = "null") =>
        /\ result.status = 400
        /\ result.error = "Transcript cannot be empty"

\* C4: a request whose duration is zero or negative never reaches
\* evaluate_speech_rate and gets no report.
C4_NonPositiveDurationRejected ==
    Posted /\ int_duration(request.data.duration).ok
           /\ int_duration(request.data.duration).value <= 0 =>
        /\ \A i \in 1..Len(calls) : calls[i] # "evaluate_speech_rate"
        /\ result.status # 200

\* a call of evaluate_introduction on a transcript without words, with a
\* positive duration, returned
ZeroWordsScored ==
    /\ Called("evaluate_introduction")
    /\ Len(split(request.transcript)) = 0
    /\ request.duration_sec > 0

\* the four rates of a report are all zero
ZeroRates(c) ==
    /\ c.speech_rate.details.wpm = 0
    /\ c.clarity.details.filler_rate = 0
    /\ c.language_grammar.vocabulary.ttr = 0
    /\ c.language_grammar.grammar.errors_per_100 = 0

\* C5, as claimed: on a transcript without words the four scorers that
\* divide by the word count return the minimum of their score sets (speech
\* rate 2, clarity 3, vocabulary 0, grammar 2) with a zero rate.
C5_ZeroWordsMinimumScores ==
    ZeroWordsScored =>
        /\ result.raised = ""
        /\ LET c == result.value.categories
           IN  /\ c.speech_rate.details.score = 2
               /\ c.clarity.details.score = 3
               /\ c.language_grammar.vocabulary.score = 0
               /\ c.language_grammar.grammar.score = 2
               /\ ZeroRates(c)

\* C5, amended: on a transcript without words the four scorers return
\* without a division by zero and with a zero rate; speech rate and
\* vocabulary return the minimum of their score sets (2 and 0), clarity
\* and grammar the maximum of theirs (15 and 10).
C5_ZeroWordsDefinedScores ==
    ZeroWordsScored =>
        /\ result.raised = ""
        /\ LET c == result.value.categories
           IN  /\ c.speech_rate.details.score = 2
               /\ c.speech_rate.details.feedback = "Too slow"
               /\ c.clarity.details.score = 15
               /\ c.language_grammar.vocabulary.score = 0
               /\ c.language_grammar.grammar.score = 10
               /\ ZeroRates(c)

\* a whitespace-only transcript went through all eight scorers
C5_Witness ==
    /\ ZeroWordsScored
    /\ request.transcript # ""
    /\ Len(calls) = 8
    /\ result.value.word_count = 0

REQUIRED == {"name", "age", "school/class", "family", "hobbies"}
OPTIONAL == {"about family", "origin", "ambition/goal", "fun fact", "strengths"}

\* C6: 'found' and 'missing' split the five required categories: each is
\* in exactly one of the two lists, 'missing' holds nothing else, and the
\* score is 4 per required category found plus min(2 per optional category
\* found, 10).
C6_KeywordsPartitionRequired ==
    HasReport =>
        LET k == Report.categories.content_structure.keywords
        IN  /\ \A c \in REQUIRED : (c \in Range(k.found)) # (c \in Range(k.missing))
            /\ Range(k.missing) \subseteq REQUIRED
            /\ Range(k.found) \cap Range(k.missing) = {}
            /\ Range(k.found) \subseteq REQUIRED \cup OPTIONAL
            /\ Cardinality(Range(k.found)) = Len(k.found)
            /\ Cardinality(Range(k.missing)) = Len(k.missing)
            /\ k.score = 4 * Cardinality(Range(k.found) \cap REQUIRED)
                         + Min(2 * Cardinality(Range(k.found) \cap OPTIONAL), 10)

\* a report with required categories found, required categories missing
\* and optional categories found
C6_Witness ==
    /\ HasReport
    /\ LET k == Report.categories.content_structure.keywords
       IN  /\ Range(k.found) \cap REQUIRED # {}
           /\ Range(k.found) \cap OPTIONAL # {}
           /\ k.missing # <<>>

\* the scenario's transcript was evaluated with duration 30
JohnEvaluated == HasReport /\ Transcript = INTRO_JOHN /\ Duration = 30

\* C7, as claimed: for the scenario's transcript the salutation score is 2,
\* name, hobbies and origin are found, and the flow score is 2 (name early
\* and closing, no salutation first).
C7_JohnFlowIsTwo ==
    JohnEvaluated =>
        LET c == Report.categories.content_structure
        IN  /\ c.salutation.score = 2
            /\ {"name", "hobbies", "origin"} \subseteq Range(c.keywords.found)
            /\ c.flow.score = 2

\* C7, amended: for the scenario's transcript the salutation score is 2,
\* name, hobbies and origin are found, and the flow score is 5: the first
\* sentence "Hi, myself John" contains "hi", which is in the flow scorer's
\* greeting list, so salutation-first, name-early and closing all hold.
C7_JohnFlowIsFive ==
    JohnEvaluated =>
        LET c == Report.categories.content_structure
        IN  /\ c.salutation.score = 2
            /\ {"name", "hobbies", "origin"} \subseteq Range(c.keywords.found)
            /\ c.flow.score = 5
            /\ c.flow.feedback = "Excellent flow with proper order"

\* the scenario went through the handler
C7_Witness ==
    /\ JohnEvaluated
    /\ Posted
    /\ Report.duration_sec = 30
    /\ Report.word_count = 15

Excited(text_lower) ==
    Contains(text_lower, "excited to introduce") \/ Contains(text_lower, "feeling great")
Formal(text_lower) == \E g \in Range(good_greetings) : Contains(text_lower, g)
Plain(text_lower) == Contains(text_lower, "hi") \/ Contains(text_lower, "hello")

\* C10: the salutation score is that of the first rule, in the order
\* Excellent (5), Good (4), Normal (2), that the lowercased transcript
\* matches by substring, and 0 when it matches none.
C10_SalutationFirstMatchWins ==
    HasReport =>
        LET score == Report.categories.content_structure.salutation.score
            text  == lower(Transcript)
        IN  /\ score \in {0, 2, 4, 5}
            /\ Excited(text) => score = 5
            /\ ~Excited(text) /\ Formal(text) => score = 4
            /\ ~Excited(text) /\ ~Formal(text) /\ Plain(text) => score = 2
            /\ ~Excited(text) /\ ~Formal(text) /\ ~Plain(text) => score = 0

\* a transcript that matches all three rules scored 5
C10_Witness ==
    /\ HasReport
    /\ Excited(lower(Transcript)) /\ Formal(lower(Transcript)) /\ Plain(lower(Transcript))
    /\ Report.categories.content_structure.salutation.score = 5

\* the remembered call's input is the input of the call that just returned
SameAsRemembered ==
    /\ Called("evaluate_introduction")
    /\ "report" \in DOMAIN memo
    /\ memo.later >= 1
    /\ memo.transcript = request.transcript
    /\ memo.duration_sec = request.duration_sec

C9_SpeechRateBands ==
    Called("evaluate_speech_rate") /\ request.duration_sec > 0 =>
        LET wc     == Len(split(request.transcript))
            d      == request.duration_sec
            speech == result.value
        IN  /\ speech.score = 10 <=> (60 * wc >= 111 * d /\ 60 * wc <= 140 * d)
            /\ speech.score = 6 <=> \/ 60 * wc >= 141 * d /\ 60 * wc <= 160 * d
                                    \/ 60 * wc >= 81 * d /\ 60 * wc <= 110 * d
            /\ (speech.score = 2 /\ speech.feedback = "Too fast") <=> 60 * wc > 160 * d
            /\ (speech.score = 2 /\ speech.feedback = "Too slow") => 60 * wc < 81 * d
            /\ (wc = 95 /\ d = 52) => speech.score = 6

====
